---- MODULE Spec2Model ----
(***************************************************************************)
(* Model of src/src/v1/seasonal_norm.py: get_simplified_seasonal_norm, the *)
(* analytic seasonal norm of a solar forecast.                            *)
(*                                                                         *)
(* Numbers.  The code computes in IEEE doubles; the model computes in     *)
(* fixed point on integers, with the units below.  Rounding of the last   *)
(* bits of a double is not modelled.  What a double does that a real does  *)
(* not is modelled where it decides a result: 0.0/0.0 is NaN, and          *)
(* tan(radians(90)) is a finite number.                                    *)
(*                                                                         *)
(*   timestamps            seconds since 1970-01-01T00:00:00               *)
(*   utc_hour, solar_hour,                                                 *)
(*   sunrise_solar, sunset_solar, day_length_hours                         *)
(*                         minutes (the code's hours times 60)             *)
(*   hour_angle            quarter degrees (one quarter degree of hour     *)
(*                         angle is one minute of time)                    *)
(*   lat, lon              whole degrees                                   *)
(*   declination, max_sun_elevation   hundredths of a degree               *)
(*   radians, sines, cosines, tangents   1/Scale                           *)
(*   daily_pattern         1/(Scale*Scale)                                 *)
(*   sun_intensity_factor  1/Mille                                         *)
(*   capacity              GW                                              *)
(*   power_gw_norm         GW/(Scale*Scale), or NaN                        *)
(***************************************************************************)
EXTENDS Integers, Sequences, FiniteSets

VARIABLES forecast_df, capacity, lat, lon, result, pc

\* main_page (main.py) and country_page (country.py): the capacities file
\* and the world map they read, the forecast provider's answers, the
\* checkbox, the position of main_page's loop over the countries, what it
\* has built, what is shown, and Streamlit's session state and current page.
VARIABLES solar_capacity_per_country, world, provider, normalized,
          countries_done, forecast_per_country, all_forecasts_df,
          total_forecast, main_pc, message, session_state, current_page,
          default_index, country_pc

\* EmpiricalNormAggregator.compute and NormMatcher.match: the provider's
\* answers to the sample calls made so far, the rows retained from them, the
\* NormSample table returned, and the timestamps matched against it with
\* the series match returned.
VARIABLES samples_done, responses, retained, norm_table, target_timestamps,
          norm_series, emp_pc

normVars == <<forecast_df, capacity, lat, lon, result, pc>>
pageVars ==
    <<solar_capacity_per_country, world, provider, normalized,
      countries_done, forecast_per_country, all_forecasts_df,
      total_forecast, main_pc, message, session_state, current_page,
      default_index, country_pc>>
empVars ==
    <<samples_done, responses, retained, norm_table, target_timestamps,
      norm_series, emp_pc>>
vars == <<normVars, pageVars, empVars>>

(***************************************************************************)
(* Fixed-point arithmetic.                                                 *)
(***************************************************************************)
Scale == 10^4
Mille == 10^3
Pi == 31416
HalfPi == Pi \div 2
QuarterPi == Pi \div 4
TwoPi == 2 * Pi

Abs(x) == IF x < 0 THEN -x ELSE x
Sign(x) == IF x < 0 THEN -1 ELSE IF x > 0 THEN 1 ELSE 0

\* floor(a*b/c) for a, b >= 0 and c > 0, without forming a*b.
MulDiv(a, b, c) == (a \div c) * b + ((a % c) * b) \div c

\* The Taylor polynomials of sine and cosine on [0, pi/4].
SinT(x) ==
    LET x2 == (x * x) \div Scale
        a == Scale - x2 \div 42
        b == Scale - ((x2 * a) \div Scale) \div 20
        c == Scale - ((x2 * b) \div Scale) \div 6
    IN (x * c) \div Scale

CosT(x) ==
    LET x2 == (x * x) \div Scale
        a == Scale - x2 \div 30
        b == Scale - ((x2 * a) \div Scale) \div 12
    IN Scale - ((x2 * b) \div Scale) \div 2

\* Sine and cosine of an angle in [0, pi/2].
SinQ(x) == IF x <= QuarterPi THEN SinT(x) ELSE CosT(HalfPi - x)
CosQ(x) == IF x <= QuarterPi THEN CosT(x) ELSE SinT(HalfPi - x)

\* np.sin and np.cos of any angle (radians/Scale).
Sin(x) ==
    LET r == Abs(x) % TwoPi
        h == IF r >= Pi THEN r - Pi ELSE r
        v == IF h <= HalfPi THEN SinQ(h) ELSE SinQ(Pi - h)
    IN Sign(x) * (IF r >= Pi THEN -v ELSE v)

Cos(x) ==
    LET r == Abs(x) % TwoPi
        h == IF r >= Pi THEN r - Pi ELSE r
        v == IF h <= HalfPi THEN CosQ(h) ELSE -CosQ(Pi - h)
    IN IF r >= Pi THEN -v ELSE v

\* np.radians of an angle in hundredths of a degree.
Radians(d) == Sign(d) * ((Abs(d) * Pi) \div 18000)

\* np.tan of an angle strictly between -pi/2 and pi/2.
Tan(x) == Sign(x) * ((Sin(Abs(x)) * Scale) \div Cos(Abs(x)))

\* np.clip.
Clip(x, lo, hi) == IF x < lo THEN lo ELSE IF x > hi THEN hi ELSE x

\* np.degrees(np.arccos(c)), in quarter degrees: 0 at c = 1, 720 at c = -1,
\* and in between the least angle whose cosine is at most c.
RECURSIVE ArcCosSearch(_, _, _)
ArcCosSearch(c, lo, hi) ==
    IF lo >= hi THEN lo
    ELSE LET mid == (lo + hi) \div 2
         IN IF Cos((mid * Pi) \div 720) <= c
            THEN ArcCosSearch(c, lo, mid)
            ELSE ArcCosSearch(c, mid + 1, hi)

ArcCosDegrees(c) ==
    IF c >= Scale THEN 0
    ELSE IF c <= -Scale THEN 720
    ELSE ArcCosSearch(c, 1, 719)

(***************************************************************************)
(* Timestamps.  A DatetimeIndex holds, for each entry, the seconds of its  *)
(* wall-clock reading counted from 1970-01-01T00:00:00, and one timezone   *)
(* for the whole index: none (naive) or an offset from UTC.                *)
(***************************************************************************)
SecondsPerDay == 24 * 3600

\* The day number of a civil date (days since 1970-01-01).
DaysFromCivil(y, m, d) ==
    LET yy == IF m <= 2 THEN y - 1 ELSE y
        era == yy \div 400
        yoe == yy - era * 400
        mp == IF m > 2 THEN m - 3 ELSE m + 9
        doy == (153 * mp + 2) \div 5 + d - 1
        doe == yoe * 365 + yoe \div 4 - yoe \div 100 + doy
    IN era * 146097 + doe - 719468

Timestamp(y, m, d, hh, mi, ss) ==
    DaysFromCivil(y, m, d) * SecondsPerDay + hh * 3600 + mi * 60 + ss

\* DatetimeIndex.month, .hour, .minute, .second, .day, .year of an entry.
CivilMonthIndex(t) ==
    LET z == t \div SecondsPerDay + 719468
        doe == z - (z \div 146097) * 146097
        yoe == (doe - doe \div 1460 + doe \div 36524 - doe \div 146096) \div 365
        doy == doe - (365 * yoe + yoe \div 4 - yoe \div 100)
    IN (5 * doy + 2) \div 153

MonthOf(t) ==
    LET mp == CivilMonthIndex(t) IN IF mp < 10 THEN mp + 3 ELSE mp - 9

DayOf(t) ==
    LET z == t \div SecondsPerDay + 719468
        doe == z - (z \div 146097) * 146097
        yoe == (doe - doe \div 1460 + doe \div 36524 - doe \div 146096) \div 365
        doy == doe - (365 * yoe + yoe \div 4 - yoe \div 100)
    IN doy - (153 * CivilMonthIndex(t) + 2) \div 5 + 1

YearOf(t) ==
    LET z == t \div SecondsPerDay + 719468
        era == z \div 146097
        doe == z - era * 146097
        yoe == (doe - doe \div 1460 + doe \div 36524 - doe \div 146096) \div 365
    IN yoe + era * 400 + (IF MonthOf(t) <= 2 THEN 1 ELSE 0)

HourOf(t) == (t % SecondsPerDay) \div 3600
MinuteOf(t) == (t % 3600) \div 60
SecondOf(t) == t % 60

\* An index that is not a DatetimeIndex holds the same readings as objects;
\* pd.to_datetime makes the naive DatetimeIndex of them.
to_datetime(index) == [index EXCEPT !.datetime = TRUE]

\* A timezone: naive, or aware with an offset from UTC in seconds.
Naive == [aware |-> FALSE, offset |-> 0]
Aware(off) == [aware |-> TRUE, offset |-> off]

\* index.tz_localize("UTC") of a naive index reads the wall clock as UTC;
\* index.tz_convert("UTC") of an aware one takes the offset off.
\* Mutant of tz_convert: the timezone relabelled, the wall clock kept.
tz_convert_keep_wall(t, tz) == t

tz_localize(t) == t
tz_convert(t, tz) == t - tz.offset

utc_index(index) ==
    [i \in 1..Len(index.values) |->
        IF ~index.tz.aware
        THEN tz_localize(index.values[i])
        ELSE tz_convert(index.values[i], index.tz)]

(***************************************************************************)
(* get_simplified_seasonal_norm, one timestamp t of utc_index at a time.   *)
(***************************************************************************)
TYPICAL_SOLAR_CAPACITY_FACTOR == 20

\* A float: a number, or NaN.
NaN == [nan |-> TRUE, v |-> 0]
Num(x) == [nan |-> FALSE, v |-> x]

\* Mutant of month: the day of the month read where the month is meant.
month_from_day(t) == DayOf(t)

utc_hour(t) == HourOf(t) * 60 + MinuteOf(t)
month(t) == MonthOf(t)

\* Mutants of solar_hour: the normalisation to 0-24 left out; the longitude
\* taken off instead of added.
solar_hour_unwrapped(t, lo) == utc_hour(t) + lo * 4
solar_hour_west_positive(t, lo) == (utc_hour(t) - lo * 4) % (24 * 60)

solar_hour(t, lo) == (utc_hour(t) + lo * 4) % (24 * 60)

declination(m) ==
    LET s == Sin((TwoPi * (m - 3)) \div 12)
    IN Sign(s) * ((2345 * Abs(s)) \div Scale)

\* np.tan(lat_rad) and np.tan(decl_rad), off the poles.
tan_lat(la) == Tan(Radians(la * 100))
tan_decl(m) == Tan(Radians(declination(m)))

\* -np.tan(lat_rad) * np.tan(decl_rad).  At the poles np.tan(np.radians(90))
\* is the finite 1.633e16.  Its product with the 0.0 of March is 0; with
\* September's tangent it is 0.8186, since 23.45*sin(pi) is 2.87e-15 in
\* doubles (sin(pi) is 1.22e-16, not 0); with any other month's it is of
\* magnitude 1e15 and more, for which Scale*Scale stands here.
PoleSeptember == 8186

tan_product(la, m) ==
    IF Abs(la) = 90
    THEN IF m = 9 THEN -Sign(la) * PoleSeptember
         ELSE -Sign(la) * Sign(tan_decl(m)) * Scale * Scale
    ELSE -Sign(la) * Sign(tan_decl(m))
             * MulDiv(Abs(tan_lat(la)), Abs(tan_decl(m)), Scale)

\* np.clip(cos_hour_angle, -1, 1)
cos_hour_angle(la, m) == Clip(tan_product(la, m), -Scale, Scale)

hour_angle(la, m) == ArcCosDegrees(cos_hour_angle(la, m))
day_length_hours(la, m) == 2 * hour_angle(la, m)

sunrise_solar(dl) == 12 * 60 - dl \div 2
sunset_solar(dl) == 12 * 60 + dl \div 2

\* Mutant of daily_pattern: the fixed window from 6 to 18 of the earlier
\* model in place of the computed sunrise and sunset.
daily_pattern_fixed_window(sh, dl) ==
    IF sh >= 6 * 60 /\ sh <= 18 * 60
    THEN LET s == Sin((Pi * (sh - 6 * 60)) \div (12 * 60)) IN Num(s * s)
    ELSE Num(0)

\* np.where evaluates the sine for every entry and keeps it where the
\* condition holds: 0.0/0.0 is NaN, and so is its sine.
daily_pattern(sh, dl) ==
    IF sh >= sunrise_solar(dl) /\ sh <= sunset_solar(dl)
    THEN IF dl = 0
         THEN NaN
         ELSE LET s == Sin((Pi * (sh - sunrise_solar(dl))) \div dl)
              IN Num(s * s)
    ELSE Num(0)

max_sun_elevation(la, m) == 9000 - Abs(la * 100 - declination(m))

sun_intensity_factor(la, m) ==
    Clip(((max_sun_elevation(la, m) - 2345) * Mille) \div (9000 - 2345),
         300, Mille)

\* daily_pattern * sun_intensity_factor * capacity * the capacity factor:
\* NaN times anything, 0 included, is NaN.
norm_power(t, cap, la, lo) ==
    LET p == daily_pattern(solar_hour(t, lo), day_length_hours(la, month(t)))
    IN IF p.nan THEN NaN
       ELSE Num(MulDiv(MulDiv(p.v, sun_intensity_factor(la, month(t)), Mille),
                       cap * TYPICAL_SOLAR_CAPACITY_FACTOR, 100))

\* Mutant of get_simplified_seasonal_norm: the column built by timestamp
\* label, one value per distinct timestamp.
RECURSIVE Distinct(_)
Distinct(sq) ==
    IF sq = <<>> THEN <<>>
    ELSE LET front == Distinct(SubSeq(sq, 1, Len(sq) - 1))
             last == sq[Len(sq)]
         IN IF \E k \in 1..Len(front) : front[k] = last
            THEN front
            ELSE Append(front, last)

get_simplified_seasonal_norm_by_label(df, cap, la, lo) ==
    LET index == IF ~df.index.datetime THEN to_datetime(df.index) ELSE df.index
        labels == [index EXCEPT !.values = Distinct(index.values)]
    IN [index |-> index,
        power_gw_norm |-> [i \in 1..Len(labels.values) |->
                              norm_power(utc_index(labels)[i], cap, la, lo)]]

\* The returned frame: the input's index, and the column power_gw_norm
\* assigned by position.
get_simplified_seasonal_norm(df, cap, la, lo) ==
    LET index == IF ~df.index.datetime THEN to_datetime(df.index) ELSE df.index
    IN [index |-> index,
        power_gw_norm |-> [i \in 1..Len(index.values) |->
                              norm_power(utc_index(index)[i], cap, la, lo)]]

(***************************************************************************)
(* The inputs of a call.                                                   *)
(***************************************************************************)
MaxLen == 2

Lats == {-90, -80, 0, 60, 90}
Lons == {-180, 10, 180}
Capacities == {0, 10}
Timezones == {Naive, Aware(0), Aware(2 * 3600)}

\* First entries of an index: the first day of each month of 2024, at
\* these times of day.
Pool ==
    {Timestamp(2024, m, 1, hm[1], hm[2], 0) :
        m \in 1..12,
        hm \in {<<0, 0>>, <<0, 20>>, <<10, 40>>, <<11, 20>>, <<12, 0>>}}

\* Later entries follow the last one: the same timestamp again, one hour
\* earlier, or the same time of day 367 days and 30 seconds later.
Steps == {0, -3600, 367 * SecondsPerDay + 30}

NoResult ==
    [index |-> [datetime |-> TRUE, tz |-> Naive, values |-> <<>>],
     power_gw_norm |-> <<>>]

\* No page is running while the function is called on its own.
NoPage ==
    /\ solar_capacity_per_country = <<>>
    /\ world = <<>>
    /\ provider = <<>>
    /\ normalized = FALSE
    /\ countries_done = 0
    /\ forecast_per_country = <<>>
    /\ all_forecasts_df = <<>>
    /\ total_forecast = <<>>
    /\ main_pc = "none"
    /\ message = ""
    /\ session_state = {}
    /\ current_page = "none"
    /\ default_index = 0
    /\ country_pc = "none"

\* No empirical norm is being computed.
NoTable == [absent |-> TRUE, table |-> {}]
NoEmpirical ==
    /\ samples_done = 0
    /\ responses = <<>>
    /\ retained = <<>>
    /\ norm_table = NoTable
    /\ target_timestamps = [datetime |-> TRUE, tz |-> Naive, values |-> <<>>]
    /\ norm_series = <<>>
    /\ emp_pc = "none"

Init ==
    /\ NoPage
    /\ NoEmpirical
    /\ \E dt \in BOOLEAN, tz \in Timezones :
          /\ (~dt => tz = Naive)
          /\ forecast_df = [index |-> [datetime |-> dt, tz |-> tz, values |-> <<>>]]
    /\ capacity \in Capacities
    /\ lat \in Lats
    /\ lon \in Lons
    /\ result = NoResult
    /\ pc = "input"

\* The caller builds the frame it will pass.
AddEntry(t) ==
    /\ pc = "input"
    /\ Len(forecast_df.index.values) < MaxLen
    /\ forecast_df' =
          [forecast_df EXCEPT !.index.values = Append(@, t)]
    /\ UNCHANGED <<capacity, lat, lon, result, pc>>
    /\ UNCHANGED <<pageVars, empVars>>

AppendFirst ==
    /\ forecast_df.index.values = <<>>
    /\ \E t \in Pool : AddEntry(t)

AppendNext ==
    /\ forecast_df.index.values # <<>>
    /\ \E d \in Steps :
          AddEntry(forecast_df.index.values[Len(forecast_df.index.values)] + d)

\* result = get_simplified_seasonal_norm(forecast_df, capacity, lat, lon)
Call ==
    /\ pc = "input"
    /\ result' = get_simplified_seasonal_norm(forecast_df, capacity, lat, lon)
    /\ pc' = "returned"
    /\ UNCHANGED <<forecast_df, capacity, lat, lon>>
    /\ UNCHANGED <<pageVars, empVars>>

Next == AppendFirst \/ AppendNext \/ Call

Spec == Init /\ [][Next]_vars

(***************************************************************************)
(* Properties of a returned call.                                          *)
(***************************************************************************)
Returned == pc = "returned"

\* The entries of the returned column, and the UTC reading of each.
Entries == 1..Len(result.power_gw_norm)
UtcOf(i) == utc_index(result.index)[i]

SolarHourOf(i) == solar_hour(UtcOf(i), lon)
DayLengthOf(i) == day_length_hours(lat, month(UtcOf(i)))
Noon == 12 * 60
One == Num(Scale * Scale)

\* C1: with capacity 0 every entry of power_gw_norm is 0, polar night at
\* solar noon included.  (Stated as the claim states it; the code returns
\* NaN there.)
C1_ZeroCapacityAllZero ==
    (Returned /\ capacity = 0) =>
        \A i \in Entries : result.power_gw_norm[i] = Num(0)

\* C2: with capacity > 0, an entry strictly between sunrise_solar and
\* sunset_solar has power_gw_norm > 0, and an entry outside
\* [sunrise_solar, sunset_solar] has power_gw_norm exactly 0.
C2_PositiveInsideZeroOutside ==
    (Returned /\ capacity > 0) =>
        \A i \in Entries :
            LET sh == SolarHourOf(i)
                dl == DayLengthOf(i)
                p == result.power_gw_norm[i]
            IN /\ (sunrise_solar(dl) < sh /\ sh < sunset_solar(dl))
                     => (~p.nan /\ p.v > 0)
               /\ (sh < sunrise_solar(dl) \/ sh > sunset_solar(dl))
                     => p = Num(0)

\* C2 witness: one returned index with an entry inside the window
\* (positive) and an entry outside it (zero), capacity > 0.
C2_Witness ==
    /\ Returned /\ capacity > 0
    /\ \E i, j \in Entries :
          /\ sunrise_solar(DayLengthOf(i)) < SolarHourOf(i)
          /\ SolarHourOf(i) < sunset_solar(DayLengthOf(i))
          /\ result.power_gw_norm[i].v > 0
          /\ SolarHourOf(j) < sunrise_solar(DayLengthOf(j))
          /\ result.power_gw_norm[j] = Num(0)

\* C3: whenever solar_hour is 12 the daily pattern is exactly 1.0, for
\* every latitude and month.  (Stated as the claim states it; the code
\* computes sin(pi * 0/0)^2 = NaN when the day length is 0.)
C3_NoonPatternIsOne ==
    Returned =>
        \A i \in Entries :
            SolarHourOf(i) = Noon
                => daily_pattern(SolarHourOf(i), DayLengthOf(i)) = One

\* C4, as claimed: at (lon + 15, timestamp minus one hour) the solar hour
\* and power_gw_norm are those at (lon, timestamp), for every timestamp,
\* the first hour of a month included.
C4_ShiftInvariantAlways ==
    (Returned /\ lon + 15 <= 180) =>
        \A i \in Entries :
            /\ solar_hour(UtcOf(i) - 3600, lon + 15) = SolarHourOf(i)
            /\ norm_power(UtcOf(i) - 3600, capacity, lat, lon + 15)
                  = result.power_gw_norm[i]

\* C4, amended: at (lon + 15, timestamp minus one hour) the solar hour is
\* that at (lon, timestamp); power_gw_norm is the same too when the two
\* timestamps lie in the same UTC month.
C4_ShiftInvariantSameMonth ==
    (Returned /\ lon + 15 <= 180) =>
        \A i \in Entries :
            /\ solar_hour(UtcOf(i) - 3600, lon + 15) = SolarHourOf(i)
            /\ month(UtcOf(i) - 3600) = month(UtcOf(i))
                  => norm_power(UtcOf(i) - 3600, capacity, lat, lon + 15)
                        = result.power_gw_norm[i]

\* C4 witness: a daylight entry (positive power) whose timestamp and the
\* one an hour earlier share the month, at a longitude that can be shifted.
C4_Witness ==
    /\ Returned /\ lon + 15 <= 180
    /\ \E i \in Entries :
          /\ month(UtcOf(i) - 3600) = month(UtcOf(i))
          /\ result.power_gw_norm[i].v > 0

\* The month six months away from m, as a month in 1..12.
SixMonthsAway(m) == IF (m + 6) % 12 = 0 THEN 12 ELSE (m + 6) % 12

\* C5: the day length at (lat, m) equals the day length at (-lat, m + 6
\* mod 12), for every latitude and month.  (Stated as the claim states it;
\* at the poles the code's March and September differ.)
C5_LatitudeSymmetry ==
    Returned =>
        \A i \in Entries :
            day_length_hours(lat, month(UtcOf(i)))
                = day_length_hours(-lat, SixMonthsAway(month(UtcOf(i))))

\* C6: the returned column has one value per entry of the input index, in
\* the input's order: the same number of entries, the same index readings at
\* the same positions, and at each position the value of that position's
\* timestamp.
C6_OnePerEntryInOrder ==
    Returned =>
        /\ Len(result.power_gw_norm) = Len(forecast_df.index.values)
        /\ result.index.values = forecast_df.index.values
        /\ result.index.tz = forecast_df.index.tz
        /\ \A i \in 1..Len(forecast_df.index.values) :
              result.power_gw_norm[i]
                 = norm_power(utc_index(to_datetime(forecast_df.index))[i],
                              capacity, lat, lon)

\* C6 witness: a returned timezone-aware index of two entries, the same
\* timestamp twice, with a positive value at both.
C6_Witness ==
    /\ Returned
    /\ forecast_df.index.tz.aware
    /\ Len(forecast_df.index.values) = 2
    /\ forecast_df.index.values[1] = forecast_df.index.values[2]
    /\ Len(result.power_gw_norm) = 2
    /\ result.power_gw_norm[1].v > 0

\* C7: every power_gw_norm is a defined number and is never negative.
\* (Stated as the claim states it; the code returns NaN at polar-night
\* solar noon.)
C7_DefinedAndNonNegative ==
    Returned =>
        \A i \in Entries :
            ~result.power_gw_norm[i].nan /\ result.power_gw_norm[i].v >= 0

\* C8: the day length lies in [0, 24]; where -tan(lat)*tan(declination) >= 1
\* it is exactly 0 and the output is 0 at every time of the month; where it
\* is <= -1 the day length is exactly 24 and the daylight window covers the
\* solar hour.  (Stated as the claim states it; the code returns NaN at
\* solar noon of a permanent night.)
C8_PolarClamping ==
    Returned =>
        \A i \in Entries :
            LET m == month(UtcOf(i))
                dl == DayLengthOf(i)
            IN /\ 0 <= dl /\ dl <= 24 * 60
               /\ tan_product(lat, m) >= Scale
                     => (dl = 0 /\ result.power_gw_norm[i] = Num(0))
               /\ tan_product(lat, m) <= -Scale
                     => /\ dl = 24 * 60
                        /\ sunrise_solar(dl) <= SolarHourOf(i)
                        /\ SolarHourOf(i) <= sunset_solar(dl)

SameKey(t, u) ==
    /\ MonthOf(t) = MonthOf(u)
    /\ HourOf(t) = HourOf(u)
    /\ MinuteOf(t) = MinuteOf(u)

\* Readings that differ from t in the second, in the day of the month, in
\* the year.
Variants(t) == {t + 30, t + 2 * SecondsPerDay, t + 366 * SecondsPerDay}

\* C10: a call leaves the input frame as it was, and the value of an entry
\* depends only on the UTC month, hour and minute of its timestamp (with
\* lat, lon and capacity): entries of the index that agree on these have
\* the same value, and so has any other timestamp that agrees on them,
\* whatever its second, day or year.
C10_Pure ==
    [][(pc = "input" /\ pc' = "returned") =>
          LET utc == utc_index(result'.index)
              col == result'.power_gw_norm
          IN /\ forecast_df' = forecast_df
             /\ \A i, j \in 1..Len(col) :
                   SameKey(utc[i], utc[j]) => col[i] = col[j]
             /\ \A i \in 1..Len(col) :
                   \A u \in Variants(utc[i]) :
                      SameKey(utc[i], u)
                         => norm_power(u, capacity', lat', lon') = col[i]]_vars

\* C10 witness: a returned index of two entries with the same UTC month,
\* hour and minute, different in second, day and year, both positive.
C10_Witness ==
    /\ Returned
    /\ Len(result.power_gw_norm) = 2
    /\ UtcOf(1) # UtcOf(2)
    /\ SameKey(UtcOf(1), UtcOf(2))
    /\ SecondOf(UtcOf(1)) # SecondOf(UtcOf(2))
    /\ DayOf(UtcOf(1)) # DayOf(UtcOf(2))
    /\ YearOf(UtcOf(1)) # YearOf(UtcOf(2))
    /\ result.power_gw_norm[1].v > 0

\* The instant an index entry denotes, in UTC seconds, and the wall-clock
\* reading of an instant in a timezone.
InstantOf(index, i) == index.values[i] - index.tz.offset
IndexAt(tz, t) == [datetime |-> TRUE, tz |-> tz, values |-> <<t + tz.offset>>]

\* C14: a naive timestamp is read as UTC and an aware one is converted to
\* UTC before hour and month are taken: the value of an entry is the value
\* at its instant's UTC month, hour and minute, and the same instant given
\* naive (its UTC reading), aware in UTC or aware in another zone (its
\* local reading, whose date may fall in another month) has that same
\* value.  A reading normalised to the very same UTC timestamp has the same
\* value because the value is a function of that timestamp.
C14_TimezoneNormalised ==
    Returned =>
        \A i \in 1..Len(forecast_df.index.values) :
            LET t == InstantOf(forecast_df.index, i)
                value == result.power_gw_norm[i]
            IN /\ value = norm_power(t, capacity, lat, lon)
               /\ \A tz \in Timezones :
                     LET u == utc_index(IndexAt(tz, t))[1]
                     IN u # t => norm_power(u, capacity, lat, lon) = value

\* C14 witness: an entry of an index two hours ahead of UTC whose local
\* month is not its UTC month, in daylight (positive value).
C14_Witness ==
    /\ Returned
    /\ forecast_df.index.tz = Aware(2 * 3600)
    /\ \E i \in Entries :
          /\ MonthOf(forecast_df.index.values[i])
                # MonthOf(InstantOf(forecast_df.index, i))
          /\ result.power_gw_norm[i].v > 0

\* C17: the sun intensity factor lies in [0.3, 1.0] and the daily pattern in
\* [0, 1], so power_gw_norm <= 0.20 * capacity for every input, and at
\* solar noon of a month with non-zero day length power_gw_norm >=
\* 0.3 * 0.20 * capacity.  (Stated as the claim states it; the code's
\* pattern and output are NaN at polar-night solar noon.)
C17_OutputRange ==
    Returned =>
        \A i \in Entries :
            LET m == month(UtcOf(i))
                pat == daily_pattern(SolarHourOf(i), DayLengthOf(i))
                p == result.power_gw_norm[i]
                full == capacity * TYPICAL_SOLAR_CAPACITY_FACTOR
                           * ((Scale * Scale) \div 100)
            IN /\ 300 <= sun_intensity_factor(lat, m)
               /\ sun_intensity_factor(lat, m) <= Mille
               /\ ~pat.nan /\ 0 <= pat.v /\ pat.v <= Scale * Scale
               /\ ~p.nan /\ p.v <= full
               /\ (SolarHourOf(i) = Noon /\ DayLengthOf(i) # 0)
                     => p.v >= (3 * full) \div 10

(***************************************************************************)
(* main_page (main.py) and country_page (country.py).  Power values are in *)
(* thousandths of the provider's unit; a normalised value is in            *)
(* thousandths of a percent.  A forecast frame is the sequence of its rows *)
(* [timestamp, power_gw]; a dict is a function on its keys, iterated in    *)
(* insertion order, which for forecast_per_country is the order of         *)
(* `countries`.                                                            *)
(***************************************************************************)

\* list(pycountry.countries), by alpha_3 code.
countries == <<"AAA", "BBB", "CCC">>
Codes == {countries[i] : i \in 1..Len(countries)}

\* The rows solar_capacities.csv may hold, in file order.
CapacityFile ==
    <<[code |-> "AAA", country_name |-> "Aland", capacity_gw |-> 10],
      [code |-> "BBB", country_name |-> "Bolivia", capacity_gw |-> 4],
      [code |-> "CCC", country_name |-> "Chad", capacity_gw |-> 5]>>

\* solar_capacity_per_country_df.to_dict()["capacity_gw"] for the rows kept.
CapacityDict(kept) ==
    [c \in {CapacityFile[i].code : i \in kept} |->
        LET i == CHOOSE j \in kept : CapacityFile[j].code = c
        IN CapacityFile[i].capacity_gw]
CapacityTables == {CapacityDict(kept) : kept \in SUBSET (1..Len(CapacityFile))}

\* countries.geojson: the adm0_a3 column, row by row.
Worlds == {<<"AAA", "BBB", "CCC">>, <<"BBB", "XKX", "AAA">>, <<"CCC">>}

\* The forecast provider's answer: absent (None) or rows of
\* {timestamp, power_kw}.
T0 == Timestamp(2024, 6, 1, 12, 0, 0)
T1 == T0 + 3600
Row(t, p) == [timestamp |-> t, power_kw |-> p]
Absent == [absent |-> TRUE, rows |-> <<>>]
Got(rows) == [absent |-> FALSE, rows |-> rows]
Responses ==
    {Absent,
     Got(<<Row(T0, 1000)>>),
     Got(<<Row(T1, 2000)>>),
     Got(<<Row(T0, 3000), Row(T1, 1000)>>)}

get_forecast(code) == provider[code]

\* country_map = world[world["adm0_a3"] == country.alpha_3]; country_map.empty
country_map_empty(code) == \A i \in 1..Len(world) : world[i] # code

\* forecast = pd.DataFrame(forecast_data).rename(power_kw -> power_gw), and
\* with the checkbox set, power_gw / capacity * 100.
forecast_frame(rows, cap) ==
    [i \in 1..Len(rows) |->
        [timestamp |-> rows[i].timestamp,
         power_gw |-> IF normalized
                          THEN (rows[i].power_kw * 100) \div cap
                          ELSE rows[i].power_kw]]

\* forecast_per_country[key] = value
dict_set(d, key, value) ==
    [k \in DOMAIN d \cup {key} |-> IF k = key THEN value ELSE d[k]]

\* all_forecasts: the frames of forecast_per_country in insertion order,
\* each with its country_code column, and pd.concat of them.
RECURSIVE concat_from(_, _)
concat_from(d, n) ==
    IF n > Len(countries) THEN <<>>
    ELSE (IF countries[n] \in DOMAIN d
             THEN [i \in 1..Len(d[countries[n]]) |->
                      [timestamp |-> d[countries[n]][i].timestamp,
                       power_gw |-> d[countries[n]][i].power_gw,
                       country_code |-> countries[n]]]
             ELSE <<>>)
         \o concat_from(d, n + 1)
concat(d) == concat_from(d, 1)

\* Mutant of groupby_sum: the first row of each group instead of the sum.
groupby_first(rows) ==
    [t \in {rows[i].timestamp : i \in 1..Len(rows)} |->
        rows[CHOOSE i \in 1..Len(rows) :
                /\ rows[i].timestamp = t
                /\ \A j \in 1..(i - 1) : rows[j].timestamp # t].power_gw]

\* df[["timestamp", "power_gw"]].groupby(["timestamp"]).sum()
RECURSIVE sum_where(_, _, _)
sum_where(rows, t, n) ==
    IF n > Len(rows) THEN 0
    ELSE (IF rows[n].timestamp = t THEN rows[n].power_gw ELSE 0)
         + sum_where(rows, t, n + 1)
groupby_sum(rows) ==
    [t \in {rows[i].timestamp : i \in 1..Len(rows)} |-> sum_where(rows, t, 1)]

\* sorted(all_forecasts_df["timestamp"].unique()), as the set it lists.
available_timestamps ==
    {all_forecasts_df[i].timestamp : i \in 1..Len(all_forecasts_df)}

\* country_code_and_names: one entry "<code> - <country_name>" per row of the
\* capacities file, as the pair of its two parts.
country_code_and_names ==
    LET kept == SelectSeq(CapacityFile,
                    LAMBDA r : r.code \in DOMAIN solar_capacity_per_country)
    IN [i \in 1..Len(kept) |-> <<kept[i].code, kept[i].country_name>>]

\* country_name.startswith(selected_code + " - ")
startswith(entry, selected_code) == entry[1] = selected_code

\* The loop of country.py:222-225: the index of the first matching entry,
\* or the default 0 when none matches.
first_match(names, selected_code) ==
    IF \E i \in 1..Len(names) : startswith(names[i], selected_code)
        THEN (CHOOSE i \in 1..Len(names) :
                 /\ startswith(names[i], selected_code)
                 /\ \A j \in 1..(i - 1) : ~startswith(names[j], selected_code))
             - 1
        ELSE 0

\* Mutant of del_selected_country_code: the key left in place.
keep_selected_country_code(state) == state

\* del st.session_state.selected_country_code
del_selected_country_code(state) == {}

NoMessage == ""
NoMapData == "No forecast data available for the map"
NoCountryData == "No forecast data available for the selected country"

\* A run of main_page starts: nothing built yet.
StartMain ==
    /\ countries_done' = 0
    /\ forecast_per_country' = <<>>
    /\ all_forecasts_df' = <<>>
    /\ total_forecast' = <<>>
    /\ message' = NoMessage
    /\ main_pc' = "loop"

InitPage ==
    /\ solar_capacity_per_country \in CapacityTables
    /\ world \in Worlds
    /\ provider \in [Codes -> Responses]
    /\ normalized \in BOOLEAN
    /\ countries_done = 0
    /\ forecast_per_country = <<>>
    /\ all_forecasts_df = <<>>
    /\ total_forecast = <<>>
    /\ main_pc = "loop"
    /\ message = NoMessage
    /\ session_state = {}
    /\ current_page = "main"
    /\ default_index = 0
    /\ country_pc = "none"
    /\ NoEmpirical
    /\ forecast_df = [index |-> NoResult.index]
    /\ capacity = 0
    /\ lat = 0
    /\ lon = 0
    /\ result = NoResult
    /\ pc = "none"

Files == <<solar_capacity_per_country, world, provider>>

\* main.py:191-225, one pass of the loop over the countries.
LoopIteration ==
    /\ current_page = "main"
    /\ main_pc = "loop"
    /\ countries_done < Len(countries)
    /\ LET country == countries[countries_done + 1]
           forecast_data == get_forecast(country)
       IN forecast_per_country' =
             IF country \notin DOMAIN solar_capacity_per_country
                 THEN forecast_per_country
             ELSE IF country_map_empty(country)
                 THEN forecast_per_country
             ELSE IF forecast_data.absent
                 THEN forecast_per_country
             ELSE dict_set(forecast_per_country, country,
                      forecast_frame(forecast_data.rows,
                                     solar_capacity_per_country[country]))
    /\ countries_done' = countries_done + 1
    /\ UNCHANGED <<Files, normalized, all_forecasts_df, total_forecast,
                   main_pc, message, session_state, current_page,
                   default_index, country_pc>>
    /\ UNCHANGED <<normVars, empVars>>

\* main.py:232-245: pd.concat raises ValueError on an empty list.
Aggregate ==
    /\ current_page = "main"
    /\ main_pc = "loop"
    /\ countries_done = Len(countries)
    /\ IF DOMAIN forecast_per_country = {}
          THEN /\ main_pc' = "raised"
               /\ UNCHANGED <<all_forecasts_df, total_forecast>>
          ELSE /\ all_forecasts_df' = concat(forecast_per_country)
               /\ total_forecast' = groupby_sum(concat(forecast_per_country))
               /\ main_pc' = "render"
    /\ UNCHANGED <<Files, normalized, countries_done, forecast_per_country,
                   message, session_state, current_page, default_index,
                   country_pc>>
    /\ UNCHANGED <<normVars, empVars>>

\* main.py:262-355: the slider and the map, or the error; then the click on
\* the map, if any (clicked = -1: no point selected).
Render ==
    /\ current_page = "main"
    /\ main_pc = "render"
    /\ IF available_timestamps = {}
          THEN /\ message' = NoMapData
               /\ main_pc' = "returned"
               /\ UNCHANGED <<session_state, current_page, country_pc>>
          ELSE \E clicked_country_index \in (-1)..Len(world) :
                  /\ main_pc' = "done"
                  /\ IF /\ clicked_country_index >= 0
                        /\ clicked_country_index < Len(world)
                        THEN LET clicked_country_code ==
                                     world[clicked_country_index + 1]
                             IN IF clicked_country_code
                                      \in DOMAIN solar_capacity_per_country
                                    THEN /\ session_state' = {clicked_country_code}
                                         /\ current_page' = "country"
                                         /\ country_pc' = "pending"
                                         /\ UNCHANGED message
                                    ELSE /\ message' = NoCountryData
                                         /\ UNCHANGED <<session_state,
                                                        current_page, country_pc>>
                        ELSE UNCHANGED <<message, session_state, current_page,
                                         country_pc>>
    /\ UNCHANGED <<Files, normalized, countries_done, forecast_per_country,
                   all_forecasts_df, total_forecast, default_index>>
    /\ UNCHANGED <<normVars, empVars>>

\* Streamlit runs main_page again (a widget changed, or the page was opened
\* again).
RerunMain ==
    /\ current_page = "main"
    /\ main_pc \in {"done", "returned", "raised"}
    /\ normalized' \in BOOLEAN
    /\ StartMain
    /\ UNCHANGED <<Files, session_state, current_page, default_index,
                   country_pc>>
    /\ UNCHANGED <<normVars, empVars>>

\* country.py:185-258, one run of country_page.  The select box shows
\* default_index; `selected` is the entry the user has chosen, if they
\* chose one, else the default.
CountryPageRun ==
    /\ current_page = "country"
    /\ LET names == country_code_and_names
           index == IF session_state # {}
                        THEN first_match(names,
                                 CHOOSE code \in session_state : TRUE)
                        ELSE 0
       IN /\ default_index' = index
          /\ session_state' =
                IF session_state # {}
                    THEN del_selected_country_code(session_state)
                    ELSE session_state
          /\ IF names = <<>>
                THEN country_pc' = "raised"
                ELSE \E selected \in {index} \cup (0..(Len(names) - 1)) :
                        LET selected_country_code == names[selected + 1][1]
                        IN country_pc' =
                              IF selected_country_code \notin Codes
                                  THEN "raised"
                              ELSE IF country_map_empty(selected_country_code)
                                  THEN "raised"
                              ELSE IF get_forecast(selected_country_code).absent
                                  THEN "error"
                              ELSE "shown"
    /\ UNCHANGED <<Files, normalized, countries_done, forecast_per_country,
                   all_forecasts_df, total_forecast, main_pc, message,
                   current_page>>
    /\ UNCHANGED <<normVars, empVars>>

\* The user opens the other page from the navigation.
OpenCountryPage ==
    /\ current_page = "main"
    /\ main_pc \in {"done", "returned", "raised"}
    /\ current_page' = "country"
    /\ country_pc' = "pending"
    /\ UNCHANGED <<Files, normalized, countries_done, forecast_per_country,
                   all_forecasts_df, total_forecast, main_pc, message,
                   session_state, default_index>>
    /\ UNCHANGED <<normVars, empVars>>

OpenMainPage ==
    /\ current_page = "country"
    /\ country_pc # "pending"
    /\ current_page' = "main"
    /\ normalized' \in BOOLEAN
    /\ StartMain
    /\ UNCHANGED <<Files, session_state, default_index, country_pc>>
    /\ UNCHANGED <<normVars, empVars>>

NextPage ==
    \/ LoopIteration
    \/ Aggregate
    \/ Render
    \/ RerunMain
    \/ CountryPageRun
    \/ OpenCountryPage
    \/ OpenMainPage

SpecPage == InitPage /\ [][NextPage]_vars

(***************************************************************************)
(* Properties of main_page and country_page.                               *)
(***************************************************************************)
Contributed == DOMAIN forecast_per_country
Visited == {countries[i] : i \in 1..countries_done}
Aggregated == main_pc \in {"render", "done", "returned"}

\* The country has a capacity entry, a geometry, and a forecast.
Eligible(c) ==
    /\ c \in DOMAIN solar_capacity_per_country
    /\ \E i \in 1..Len(world) : world[i] = c
    /\ ~provider[c].absent

HasRowAt(c, t) ==
    \E i \in 1..Len(forecast_per_country[c]) :
        forecast_per_country[c][i].timestamp = t
ValueAt(c, t) ==
    LET frame == forecast_per_country[c]
    IN frame[CHOOSE i \in 1..Len(frame) : frame[i].timestamp = t].power_gw

RECURSIVE SumOver(_, _)
SumOver(cs, t) ==
    IF cs = {} THEN 0
    ELSE LET c == CHOOSE x \in cs : TRUE
         IN ValueAt(c, t) + SumOver(cs \ {c}, t)

\* C11: main_page's loop passes over a country with no capacity entry, no
\* geometry or no forecast and goes on to the next, so the contributors are
\* exactly the visited countries that have all three; and the total at each
\* timestamp is the sum of power_gw over exactly the contributors that have
\* a row for it, with nothing added for the others.
C11_WholeMapAggregation ==
    main_pc # "none" =>
        /\ Contributed = {c \in Visited : Eligible(c)}
        /\ Aggregated =>
              /\ countries_done = Len(countries)
              /\ DOMAIN total_forecast =
                    {t \in {T0, T1} : \E c \in Contributed : HasRowAt(c, t)}
              /\ \A t \in DOMAIN total_forecast :
                    total_forecast[t]
                       = SumOver({c \in Contributed : HasRowAt(c, t)}, t)

\* C11 witness: two countries contributed and one was passed over; at one
\* timestamp both have a row, at another only one of them.
C11_Witness ==
    /\ Aggregated
    /\ Cardinality(Contributed) = 2
    /\ Codes \ Contributed # {}
    /\ \E t \in DOMAIN total_forecast :
          Cardinality({c \in Contributed : HasRowAt(c, t)}) = 2
    /\ \E t \in DOMAIN total_forecast :
          Cardinality({c \in Contributed : HasRowAt(c, t)}) = 1

\* C15: when no country yields a forecast, main_page reports "No forecast
\* data available for the map" and returns, and does not raise before that
\* branch.  (Stated as the claim states it; pd.concat of the empty list
\* raises.)
C15_NoForecastReportsError ==
    (/\ main_pc \notin {"none", "loop"}
     /\ Contributed = {})
        => /\ main_pc = "returned"
           /\ message = NoMapData

\* C16: the key selected_country_code is written only by main_page, for a
\* clicked country that has a capacity entry, together with the switch to
\* the country page; every run of country_page leaves the key absent,
\* whether or not the code matched an entry, so the key is present only
\* until the next render of country_page, and a run that finds no key
\* uses default index 0.
C16_MapClickHandoff ==
    [][/\ (session_state' # session_state /\ session_state' # {})
            => /\ current_page = "main"
               /\ main_pc = "render"
               /\ current_page' = "country"
               /\ \E i \in 1..Len(world) :
                     /\ session_state' = {world[i]}
                     /\ world[i] \in DOMAIN solar_capacity_per_country
       /\ CountryPageRun
            => /\ session_state' = {}
               /\ session_state = {} => default_index' = 0
       /\ session_state' # {}
            => /\ current_page' = "country"
               /\ country_pc' = "pending"]_vars

\* C16 witness: country_page has rendered with the clicked country
\* pre-selected at a non-zero index, and the key is gone.
C16_Witness ==
    /\ current_page = "country"
    /\ country_pc \in {"raised", "error", "shown"}
    /\ default_index > 0
    /\ session_state = {}


(***************************************************************************)
(* EmpiricalNormAggregator.compute and NormMatcher.match, from the         *)
(* specification's sections 4.2 and 4.3.  A NormSample is a record         *)
(* [month, hour, power_gw]; a table holds at most one per (month, hour).   *)
(* Power values are in thousandths of a GW; a mean is truncated to that    *)
(* unit.                                                                   *)
(***************************************************************************)
GridSize == 3
MaxTargets == 2

\* What one sample call to the provider yields: a failure (the call failed,
\* the payload is malformed, a column is missing) or rows of
\* {timestamp, power_gw} with the timezone of their timestamps.
Failed(kind) == [ok |-> FALSE, kind |-> kind, tz |-> Naive, rows |-> <<>>]
Usable(tz, rows) == [ok |-> TRUE, kind |-> "ok", tz |-> tz, rows |-> rows]
SampleRow(t, p) == [timestamp |-> t, power_gw |-> p]
SampleOutcomes ==
    {Failed("call_failed"),
     Failed("malformed_payload"),
     Failed("missing_columns"),
     Usable(Naive, <<>>),
     Usable(Naive, <<SampleRow(T0, 2000)>>),
     Usable(Aware(2 * 3600),
            <<SampleRow(T0 + 2 * 3600, 4000), SampleRow(T1 + 2 * 3600, 1000)>>)}

\* Step 3: the rows of a usable response, normalised to UTC, as
\* (month, hour, power_gw).
usable_rows(response) ==
    LET utc == utc_index([datetime |-> TRUE, tz |-> response.tz,
                          values |-> [i \in 1..Len(response.rows) |->
                                         response.rows[i].timestamp]])
    IN [i \in 1..Len(response.rows) |->
           [month |-> MonthOf(utc[i]), hour |-> HourOf(utc[i]),
            power_gw |-> response.rows[i].power_gw]]

\* Mutant of skip_failed_sample: a failed call aborts what was collected.
abort_batch(rows) == <<>>

\* Step 2: a failed call is logged and skipped.
skip_failed_sample(rows) == rows

retain(rows, response) ==
    IF response.ok
        THEN rows \o usable_rows(response)
        ELSE skip_failed_sample(rows)

\* Step 4: group by (month, hour), arithmetic mean of power_gw per group.
RECURSIVE group_sum(_, _, _, _)
group_sum(rows, m, h, n) ==
    IF n > Len(rows) THEN 0
    ELSE (IF rows[n].month = m /\ rows[n].hour = h
             THEN rows[n].power_gw ELSE 0)
         + group_sum(rows, m, h, n + 1)
group_count(rows, m, h) ==
    Cardinality({i \in 1..Len(rows) : rows[i].month = m /\ rows[i].hour = h})
group_mean(rows) ==
    {[month |-> rows[i].month, hour |-> rows[i].hour,
      power_gw |-> group_sum(rows, rows[i].month, rows[i].hour, 1)
                      \div group_count(rows, rows[i].month, rows[i].hour)] :
        i \in 1..Len(rows)}

\* compute's result: "absent" for capacity 0 or no usable row (step 5).
compute_result(cap, rows) ==
    IF cap = 0 \/ rows = <<>>
        THEN NoTable
        ELSE [absent |-> FALSE, table |-> group_mean(rows)]

\* The bucket of a target timestamp (already in UTC), or 0.0 without one.
lookup(normTable, t) ==
    LET hits == {sample \in normTable :
                    sample.month = MonthOf(t) /\ sample.hour = HourOf(t)}
    IN IF hits = {} THEN 0 ELSE (CHOOSE sample \in hits : TRUE).power_gw

\* Mutant of match: an inner join, only the targets that have a bucket.
RECURSIVE matched_only(_, _, _)
matched_only(normTable, utc, n) ==
    IF n > Len(utc) THEN <<>>
    ELSE (IF lookup(normTable, utc[n]) = 0
             THEN <<>> ELSE <<lookup(normTable, utc[n])>>)
         \o matched_only(normTable, utc, n + 1)
match_inner_join(normTable, targetTimestamps) ==
    matched_only(normTable, utc_index(targetTimestamps), 1)

\* NormMatcher.match: one value per target timestamp, in order.
match(normTable, targetTimestamps) ==
    LET utc == utc_index(targetTimestamps)
    IN [i \in 1..Len(utc) |-> lookup(normTable, utc[i])]

\* Target timestamps: up to MaxTargets wall-clock readings in one timezone.
TargetPool == {T0, T1, T0 + 2 * 3600, T0 + 30 * SecondsPerDay}
RECURSIVE SeqsUpTo(_, _)
SeqsUpTo(S, n) ==
    IF n = 0 THEN {<<>>}
    ELSE SeqsUpTo(S, n - 1)
         \cup {Append(sq, x) : sq \in {q \in SeqsUpTo(S, n - 1) : Len(q) = n - 1},
                               x \in S}
Targets ==
    {[datetime |-> TRUE, tz |-> tz, values |-> sq] :
        tz \in Timezones, sq \in SeqsUpTo(TargetPool, MaxTargets)}

InitEmpirical ==
    /\ NoPage
    /\ capacity \in Capacities
    /\ lat \in {0}
    /\ lon \in {0}
    /\ forecast_df = [index |-> NoResult.index]
    /\ result = NoResult
    /\ pc = "none"
    /\ samples_done = 0
    /\ responses = <<>>
    /\ retained = <<>>
    /\ norm_table = NoTable
    /\ target_timestamps = [datetime |-> TRUE, tz |-> Naive, values |-> <<>>]
    /\ norm_series = <<>>
    /\ emp_pc = "sampling"

\* Steps 2 and 3 for one point of the sampling grid.
Sample ==
    /\ emp_pc = "sampling"
    /\ capacity # 0
    /\ samples_done < GridSize
    /\ \E response \in SampleOutcomes :
          /\ responses' = Append(responses, response)
          /\ retained' = retain(retained, response)
    /\ samples_done' = samples_done + 1
    /\ UNCHANGED <<norm_table, target_timestamps, norm_series, emp_pc>>
    /\ UNCHANGED <<normVars, pageVars>>

\* compute returns: at once for capacity 0, else after the whole grid.
Compute ==
    /\ emp_pc = "sampling"
    /\ capacity = 0 \/ samples_done = GridSize
    /\ norm_table' = compute_result(capacity, retained)
    /\ emp_pc' = "computed"
    /\ UNCHANGED <<samples_done, responses, retained, target_timestamps,
                   norm_series>>
    /\ UNCHANGED <<normVars, pageVars>>

\* The caller matches target timestamps against the table; for "absent" it
\* has no samples to pass.
Match ==
    /\ emp_pc = "computed"
    /\ \E targets \in Targets :
          /\ target_timestamps' = targets
          /\ norm_series' = match(norm_table.table, targets)
    /\ emp_pc' = "matched"
    /\ UNCHANGED <<samples_done, responses, retained, norm_table>>
    /\ UNCHANGED <<normVars, pageVars>>

NextEmpirical == Sample \/ Compute \/ Match

SpecEmpirical == InitEmpirical /\ [][NextEmpirical]_vars

(***************************************************************************)
(* Properties of compute and match.                                        *)
(***************************************************************************)
\* The instant of target i, and the (month, hour, power_gw) rows of all the
\* usable responses, both taken from the inputs alone.
TargetInstant(i) ==
    target_timestamps.values[i] - target_timestamps.tz.offset
RECURSIVE RowsOf(_, _)
RowsOf(log, n) ==
    IF n > Len(log) THEN <<>>
    ELSE (IF log[n].ok
             THEN [i \in 1..Len(log[n].rows) |->
                      LET t == log[n].rows[i].timestamp - log[n].tz.offset
                      IN [month |-> MonthOf(t), hour |-> HourOf(t),
                          power_gw |-> log[n].rows[i].power_gw]]
             ELSE <<>>)
         \o RowsOf(log, n + 1)
RECURSIVE PowerSum(_, _)
PowerSum(rows, n) ==
    IF n > Len(rows) THEN 0 ELSE rows[n].power_gw + PowerSum(rows, n + 1)
MeanOf(rows) == PowerSum(rows, 1) \div Len(rows)

\* C12: match returns one value per target timestamp, in the targets'
\* order, for any table including the empty one: the value of the bucket
\* with the target's UTC (month, hour), or 0 when there is none.
C12_MatchKeepsLengthAndOrder ==
    emp_pc = "matched" =>
        /\ Len(norm_series) = Len(target_timestamps.values)
        /\ \A i \in 1..Len(target_timestamps.values) :
              LET t == TargetInstant(i)
                  buckets == {sample \in norm_table.table :
                                 /\ sample.month = MonthOf(t)
                                 /\ sample.hour = HourOf(t)}
              IN /\ buckets = {} => norm_series[i] = 0
                 /\ \A sample \in buckets : norm_series[i] = sample.power_gw

\* C12 witness: two targets against a non-empty table, the first without a
\* bucket and the second with one.
C12_Witness ==
    /\ emp_pc = "matched"
    /\ norm_table.table # {}
    /\ Len(target_timestamps.values) = 2
    /\ norm_series[1] = 0
    /\ norm_series[2] > 0

\* C12 witness for the empty table: two targets, all zeros.
C12_WitnessEmptyTable ==
    /\ emp_pc = "matched"
    /\ norm_table.table = {}
    /\ Len(norm_series) = 2

\* C13: compute does not stop at a failed or unusable sample call: every
\* point of the grid is sampled, the rows of every usable response count
\* in the (month, hour) means, and the result is "absent" exactly when
\* capacity is 0 or no usable row was collected over the whole grid.
C13_FailuresSkipped ==
    /\ emp_pc = "sampling" => retained = RowsOf(responses, 1)
    /\ emp_pc \in {"computed", "matched"} =>
          LET rows == RowsOf(responses, 1)
          IN /\ capacity # 0 => Len(responses) = GridSize
             /\ norm_table.absent <=> (capacity = 0 \/ rows = <<>>)
             /\ ~norm_table.absent =>
                   /\ \A i \in 1..Len(rows) :
                         \E sample \in norm_table.table :
                            /\ sample.month = rows[i].month
                            /\ sample.hour = rows[i].hour
                   /\ \A sample \in norm_table.table :
                         LET group == SelectSeq(rows,
                                         LAMBDA r : /\ r.month = sample.month
                                                    /\ r.hour = sample.hour)
                         IN /\ group # <<>>
                            /\ sample.power_gw = MeanOf(group)

\* C13 witness: a usable response, then a failed call, then another usable
\* response; the table holds the mean of the two samples' rows.
C13_Witness ==
    /\ emp_pc = "computed"
    /\ ~norm_table.absent
    /\ \E i, j, k \in 1..Len(responses) :
          /\ i < j /\ j < k
          /\ responses[i].ok /\ responses[i].rows # <<>>
          /\ ~responses[j].ok
          /\ responses[k].ok /\ responses[k].rows # <<>>
          /\ responses[i] # responses[k]
    /\ \E sample \in norm_table.table : sample.power_gw = 3000

====
